---------------------------- MODULE Spec2Model ----------------------------
(***************************************************************************)
(* A model of src/main.py, the resume analyser: text extraction, the three *)
(* model calls with their fence-stripping and JSON parsing, and the report *)
(* renderer generate_pdf_report.                                           *)
(*                                                                         *)
(* Text is a sequence of characters, each a string, so that str.strip,     *)
(* str.startswith, str.replace and json.loads work on characters as the    *)
(* Python code does.  Two characters cannot be written in a string of this *)
(* module and are named instead: Backtick and Bullet.  A JSON value (and   *)
(* the Python value json.loads makes of it) is a tagged record:            *)
(*   [t |-> "str", s |-> chars]     [t |-> "num", n |-> integer]           *)
(*   [t |-> "arr", a |-> sequence]  [t |-> "obj", o |-> key :> value]      *)
(*   [t |-> "null"]  [t |-> "bool", b |-> BOOLEAN]                         *)
(*   [t |-> "float", lit |-> chars]                                        *)
(***************************************************************************)
EXTENDS Integers, Sequences, FiniteSets, TLC

(***************************************************************************)
(* Bounds of the model.                                                    *)
(***************************************************************************)
\* pages of a PDF / paragraphs of a DOCX / bytes of a text file
MaxParts == 2
\* elements of a list field of a result record given to the renderer
MaxItems == 2

(***************************************************************************)
(* Python strings.                                                         *)
(***************************************************************************)
Chars(str) == [i \in 1..Len(str) |-> SubSeq(str, i, i)]

\* the grave accent, U+0060
Backtick == "BACKTICK"
\* the bullet, U+2022
Bullet == "BULLET"

\* the characters str.strip() removes (the ASCII ones)
PyWhitespace == {" ", "\n", "\t", "\r", "\f"}

RECURSIVE LStrip(_)
LStrip(s) ==
  IF s # <<>> /\ Head(s) \in PyWhitespace THEN LStrip(Tail(s)) ELSE s

RECURSIVE RStrip(_)
RStrip(s) ==
  IF s # <<>> /\ s[Len(s)] \in PyWhitespace
  THEN RStrip(SubSeq(s, 1, Len(s) - 1))
  ELSE s

\* str.strip()
Strip(s) == RStrip(LStrip(s))

\* str.startswith(prefix)
StartsWith(s, prefix) ==
  Len(s) >= Len(prefix) /\ SubSeq(s, 1, Len(prefix)) = prefix

\* str.endswith(suffix)
EndsWith(s, suffix) ==
  Len(s) >= Len(suffix) /\ SubSeq(s, Len(s) - Len(suffix) + 1, Len(s)) = suffix

\* str.replace(old, ''): every non-overlapping occurrence of old, found from
\* the left, is removed
RECURSIVE Remove(_, _)
Remove(s, old) ==
  IF Len(s) < Len(old) THEN s
  ELSE IF SubSeq(s, 1, Len(old)) = old
       THEN Remove(SubSeq(s, Len(old) + 1, Len(s)), old)
       ELSE <<Head(s)>> \o Remove(Tail(s), old)

\* "\n".join(parts)
RECURSIVE Join(_)
Join(parts) ==
  IF parts = <<>> THEN <<>>
  ELSE IF Len(parts) = 1 THEN parts[1]
  ELSE parts[1] \o <<"\n">> \o Join(Tail(parts))

Digits == <<"0", "1", "2", "3", "4", "5", "6", "7", "8", "9">>
DigitSet == {Digits[i] : i \in 1..10}
DigitVal(c) == (CHOOSE i \in 1..10 : Digits[i] = c) - 1

\* str(n) of an integer
RECURSIVE NatStr(_)
NatStr(n) ==
  IF n < 10 THEN <<Digits[n + 1]>> ELSE NatStr(n \div 10) \o <<Digits[(n % 10) + 1]>>
IntStr(n) == IF n < 0 THEN <<"-">> \o NatStr(-n) ELSE NatStr(n)

(***************************************************************************)
(* JSON values and json.loads.                                             *)
(***************************************************************************)
JStr(s) == [t |-> "str", s |-> s]
JNum(n) == [t |-> "num", n |-> n]
JArr(a) == [t |-> "arr", a |-> a]
JObj(o) == [t |-> "obj", o |-> o]
JNull == [t |-> "null"]
JBool(b) == [t |-> "bool", b |-> b]
JFloat(lit) == [t |-> "float", lit |-> lit]
EmptyDict == JObj(<<>>)

\* the whitespace json.loads skips between tokens
JsonWhitespace == {" ", "\t", "\n", "\r"}
\* characters json.loads (strict) refuses inside a string literal
ControlChars == {"\n", "\t", "\r", "\f"}
HexDigits == DigitSet \cup {"a", "b", "c", "d", "e", "f", "A", "B", "C", "D", "E", "F"}

ParseFail == [ok |-> FALSE]
ParseOk(v, next) == [ok |-> TRUE, val |-> v, next |-> next]

At(s, i) == IF i >= 1 /\ i <= Len(s) THEN s[i] ELSE "EOF"

\* the text at position i begins with lit
LitAt(s, i, lit) ==
  i + Len(lit) - 1 <= Len(s) /\ SubSeq(s, i, i + Len(lit) - 1) = lit

RECURSIVE SkipWs(_, _)
SkipWs(s, i) ==
  IF i <= Len(s) /\ s[i] \in JsonWhitespace THEN SkipWs(s, i + 1) ELSE i

\* the body of a string literal, from the character after the opening quote
RECURSIVE ScanString(_, _, _)
ScanString(s, i, acc) ==
  IF i > Len(s) THEN ParseFail
  ELSE IF s[i] = "\"" THEN ParseOk(JStr(acc), i + 1)
  ELSE IF s[i] \in ControlChars THEN ParseFail
  ELSE IF s[i] = "\\" THEN
    LET c == At(s, i + 1) IN
    IF c \in {"\"", "\\", "/"} THEN ScanString(s, i + 2, Append(acc, c))
    ELSE IF c = "n" THEN ScanString(s, i + 2, Append(acc, "\n"))
    ELSE IF c = "t" THEN ScanString(s, i + 2, Append(acc, "\t"))
    ELSE IF c = "r" THEN ScanString(s, i + 2, Append(acc, "\r"))
    ELSE IF c = "f" THEN ScanString(s, i + 2, Append(acc, "\f"))
    ELSE IF c = "b" THEN ScanString(s, i + 2, Append(acc, "U+0008"))
    ELSE IF c = "u" THEN
      IF \A k \in 2..5 : At(s, i + k) \in HexDigits
      THEN ScanString(s, i + 6,
             Append(acc, "U+" \o s[i + 2] \o s[i + 3] \o s[i + 4] \o s[i + 5]))
      ELSE ParseFail
    ELSE ParseFail
  ELSE ScanString(s, i + 1, Append(acc, s[i]))

RECURSIVE ScanDigits(_, _)
ScanDigits(s, i) ==
  IF At(s, i) \in DigitSet THEN ScanDigits(s, i + 1) ELSE i

RECURSIVE DigitsVal(_, _)
DigitsVal(ds, acc) ==
  IF ds = <<>> THEN acc ELSE DigitsVal(Tail(ds), acc * 10 + DigitVal(Head(ds)))

\* -?(0|[1-9]\d*)(\.\d+)?([eE][-+]?\d+)?
ScanNumber(s, i) ==
  LET neg == At(s, i) = "-"
      d0 == IF neg THEN i + 1 ELSE i
      d1 == IF At(s, d0) = "0" THEN d0 + 1 ELSE ScanDigits(s, d0)
      f1 == IF At(s, d1) = "." /\ At(s, d1 + 1) \in DigitSet
            THEN ScanDigits(s, d1 + 1) ELSE d1
      x0 == IF At(s, f1 + 1) \in {"+", "-"} THEN f1 + 2 ELSE f1 + 1
      e1 == IF At(s, f1) \in {"e", "E"} /\ At(s, x0) \in DigitSet
            THEN ScanDigits(s, x0) ELSE f1
      mag == DigitsVal(SubSeq(s, d0, d1 - 1), 0)
  IN IF d1 = d0 THEN ParseFail
     ELSE IF e1 = d1 THEN ParseOk(JNum(IF neg THEN -mag ELSE mag), d1)
     ELSE ParseOk(JFloat(SubSeq(s, i, e1 - 1)), e1)

RECURSIVE ParseValue(_, _)
RECURSIVE ParseElements(_, _, _)
RECURSIVE ParseMembers(_, _, _)

\* the elements of an array, from the first character of an element
ParseElements(s, i, acc) ==
  LET v == ParseValue(s, i) IN
  IF ~v.ok THEN ParseFail
  ELSE LET j == SkipWs(s, v.next) IN
       IF At(s, j) = "]" THEN ParseOk(JArr(Append(acc, v.val)), j + 1)
       ELSE IF At(s, j) = "," THEN ParseElements(s, SkipWs(s, j + 1), Append(acc, v.val))
       ELSE ParseFail

\* the members of an object, from the opening quote of a key; a repeated key
\* keeps its last value
ParseMembers(s, i, acc) ==
  IF At(s, i) # "\"" THEN ParseFail
  ELSE LET k == ScanString(s, i + 1, <<>>) IN
    IF ~k.ok THEN ParseFail
    ELSE LET c == SkipWs(s, k.next) IN
      IF At(s, c) # ":" THEN ParseFail
      ELSE LET v == ParseValue(s, SkipWs(s, c + 1)) IN
        IF ~v.ok THEN ParseFail
        ELSE LET j == SkipWs(s, v.next)
                 key == k.val.s
                 obj == [x \in DOMAIN acc \cup {key} |->
                           IF x = key THEN v.val ELSE acc[x]]
             IN IF At(s, j) = "}" THEN ParseOk(JObj(obj), j + 1)
                ELSE IF At(s, j) = "," THEN ParseMembers(s, SkipWs(s, j + 1), obj)
                ELSE ParseFail

ParseValue(s, i) ==
  LET c == At(s, i) IN
  IF c = "\"" THEN ScanString(s, i + 1, <<>>)
  ELSE IF c = "{" THEN
    LET j == SkipWs(s, i + 1) IN
    IF At(s, j) = "}" THEN ParseOk(EmptyDict, j + 1) ELSE ParseMembers(s, j, <<>>)
  ELSE IF c = "[" THEN
    LET j == SkipWs(s, i + 1) IN
    IF At(s, j) = "]" THEN ParseOk(JArr(<<>>), j + 1) ELSE ParseElements(s, j, <<>>)
  ELSE IF LitAt(s, i, <<"n", "u", "l", "l">>) THEN ParseOk(JNull, i + 4)
  ELSE IF LitAt(s, i, <<"t", "r", "u", "e">>) THEN ParseOk(JBool(TRUE), i + 4)
  ELSE IF LitAt(s, i, <<"f", "a", "l", "s", "e">>) THEN ParseOk(JBool(FALSE), i + 5)
  ELSE ScanNumber(s, i)

\* json.loads(s): [ok |-> TRUE, val |-> value], or [ok |-> FALSE] where it
\* raises JSONDecodeError
JsonLoads(s) ==
  LET v == ParseValue(s, SkipWs(s, 1)) IN
  IF v.ok /\ SkipWs(s, v.next) = Len(s) + 1 THEN [ok |-> TRUE, val |-> v.val]
  ELSE ParseFail

(***************************************************************************)
(* Python values: truth, len(), iteration, str().                          *)
(***************************************************************************)
\* None
None == JNull

\* d.get(key, default) of a dict d
Get(d, key, default) == IF key \in DOMAIN d.o THEN d.o[key] ELSE default

IsDict(v) == v.t = "obj"

\* the digits of a float literal before its exponent
Mantissa(lit) ==
  SelectSeq(SubSeq(lit, 1,
              IF \E i \in 1..Len(lit) : lit[i] \in {"e", "E"}
              THEN (CHOOSE i \in 1..Len(lit) : lit[i] \in {"e", "E"}) - 1
              ELSE Len(lit)),
            LAMBDA c : c \in DigitSet)

\* bool(v), as `if v:` decides
Truthy(v) ==
  CASE v.t = "arr" -> v.a # <<>>
    [] v.t = "str" -> v.s # <<>>
    [] v.t = "obj" -> DOMAIN v.o # {}
    [] v.t = "num" -> v.n # 0
    [] v.t = "bool" -> v.b
    [] v.t = "float" -> \E i \in 1..Len(Mantissa(v.lit)) : Mantissa(v.lit)[i] # "0"
    [] OTHER -> FALSE

\* len(v) is defined
HasLen(v) == v.t \in {"arr", "str", "obj"}

\* `for x in v` is defined
Iterable(v) == v.t \in {"arr", "str", "obj"}

\* the keys of a dict as a sequence.  The model keeps no insertion order for a
\* dict; no input of the specifications below iterates over one.
RECURSIVE KeySeq(_)
KeySeq(keys) ==
  IF keys = {} THEN <<>>
  ELSE LET k == CHOOSE x \in keys : TRUE IN <<JStr(k)>> \o KeySeq(keys \ {k})

\* what `for x in v` yields, for an iterable v
Elements(v) ==
  CASE v.t = "arr" -> v.a
    [] v.t = "str" -> [i \in 1..Len(v.s) |-> JStr(<<v.s[i]>>)]
    [] v.t = "obj" -> KeySeq(DOMAIN v.o)

\* str(v), as an f-string formats v.  The repr of a list or a dict is not
\* modelled: no input of the specifications below formats one.
PyStr(v) ==
  CASE v.t = "str" -> v.s
    [] v.t = "num" -> IntStr(v.n)
    [] v.t = "null" -> Chars("None")
    [] v.t = "bool" -> IF v.b THEN Chars("True") ELSE Chars("False")
    [] OTHER -> <<"REPR">>

(***************************************************************************)
(* Text extraction (main.py lines 29-38).                                  *)
(*                                                                         *)
(* An uploaded file is [name, body]; a body is a parsed PDF                *)
(* [kind |-> "pdf", pages |-> texts], a parsed DOCX                        *)
(* [kind |-> "docx", paragraphs |-> texts], or raw bytes                   *)
(* [kind |-> "bytes", bytes |-> integers] that are neither.                *)
(***************************************************************************)
Raised == [raised |-> TRUE]
Returned(v) == [raised |-> FALSE, val |-> v]

\* fitz.open raises on bytes that are no PDF
extract_text_from_pdf(pdf_file) ==
  IF pdf_file.body.kind # "pdf" THEN Raised
  ELSE Returned(Join(pdf_file.body.pages))

\* Document() raises on bytes that are no DOCX
extract_text_from_docx(docx_file) ==
  IF docx_file.body.kind # "docx" THEN Raised
  ELSE Returned(Join(docx_file.body.paragraphs))

\* the ASCII bytes of the model
AsciiChar(b) ==
  CASE b = 97 -> "a"
    [] b = 32 -> " "
    [] b = 10 -> "\n"

\* bytes.decode('utf-8'): a byte below 128 is its ASCII character; 0xFF
\* occurs in no UTF-8 encoding and raises UnicodeDecodeError.  The bodies of a
\* text file hold no other bytes.
Utf8Decode(bytes) ==
  IF \E i \in 1..Len(bytes) : bytes[i] >= 128 THEN Raised
  ELSE Returned([i \in 1..Len(bytes) |-> AsciiChar(bytes[i])])

\* the bytes of a PDF or DOCX container are not text: decoding them raises
extract_text_from_txt(txt_file) ==
  IF txt_file.body.kind # "bytes" THEN Raised
  ELSE Utf8Decode(txt_file.body.bytes)

\* lines 232-237: the extractor is chosen by the file name
ExtractText(uploaded_file) ==
  IF EndsWith(uploaded_file.name, Chars(".pdf")) THEN extract_text_from_pdf(uploaded_file)
  ELSE IF EndsWith(uploaded_file.name, Chars(".docx")) THEN extract_text_from_docx(uploaded_file)
  ELSE extract_text_from_txt(uploaded_file)

\* IsBlank without the strip(): only the empty text is refused
IsBlank_NoStrip(resume_text) == resume_text = <<>>

\* line 239: `not resume_text.strip()`
IsBlank(resume_text) == Strip(resume_text) = <<>>

(***************************************************************************)
(* The model client and the three analysis functions (lines 41-138).       *)
(*                                                                         *)
(* What model.generate_content does with a prompt is an outcome: it raises *)
(* an exception whose str() is msg, [raises |-> TRUE, msg |-> chars], or   *)
(* it returns a response whose .text is text,                              *)
(* [raises |-> FALSE, text |-> chars].                                     *)
(***************************************************************************)
Stages == {"analysis", "structured", "ats"}

\* the f-string of the except branch: the message is pasted between the
\* quotes as it is
ErrorJson(prefix, msg) ==
  Chars("{\"error\": \"") \o prefix \o msg \o Chars("\"}")

\* try: return response.text.strip()  except Exception as e: return f'...'
CallResult(outcome, prefix) ==
  IF outcome.raises THEN ErrorJson(prefix, outcome.msg)
  ELSE Strip(outcome.text)

analyze_resume(outcome) ==
  CallResult(outcome, Chars("Failed to analyze resume: "))

parse_structured_resume(outcome) ==
  CallResult(outcome, Chars("Failed to parse resume: "))

detect_jargon_and_ats_issues(outcome) ==
  CallResult(outcome, Chars("Failed to analyze jargon/ATS: "))

CallStage(stage, outcome) ==
  CASE stage = "analysis" -> analyze_resume(outcome)
    [] stage = "structured" -> parse_structured_resume(outcome)
    [] stage = "ats" -> detect_jargon_and_ats_issues(outcome)

(***************************************************************************)
(* Fence-stripping and parsing of a reply (lines 263-290, 305-329,         *)
(* 344-380).                                                               *)
(***************************************************************************)
Fence == <<Backtick, Backtick, Backtick>>
FenceJson == Fence \o Chars("json")

\* lines 265-269 (and their copies 306-310, 345-349): the value of raw_output
\* when json.loads is called
StripFences(raw) ==
  LET raw_output == Strip(raw) IN
  IF StartsWith(raw_output, FenceJson)
  THEN Strip(Remove(Remove(raw_output, FenceJson), Fence))
  ELSE IF StartsWith(raw_output, Fence)
  THEN Strip(Remove(raw_output, Fence))
  ELSE raw_output

\* lines 274-284: the display code of tab 1 raises on these shapes
Tab1DisplayOk(analysis_data) ==
  /\ IsDict(analysis_data)
  /\ HasLen(Get(analysis_data, Chars("sections_detected"), JArr(<<>>)))
  /\ HasLen(Get(analysis_data, Chars("missing_sections"), JArr(<<>>)))

\* line 362: a + b of two lists or two strings, then iterated over
ConcatIterable(a, b) == (a.t = "arr" /\ b.t = "arr") \/ (a.t = "str" /\ b.t = "str")

\* lines 354-374: the display code of tab 3 raises on these shapes
Tab3DisplayOk(ats_data) ==
  /\ IsDict(ats_data)
  /\ Truthy(Get(ats_data, Chars("ats_recommendations"), None))
       => Iterable(ats_data.o[Chars("ats_recommendations")])
  /\ (\/ Truthy(Get(ats_data, Chars("jargon_detected"), None))
      \/ Truthy(Get(ats_data, Chars("filler_phrases"), None)))
       => ConcatIterable(Get(ats_data, Chars("jargon_detected"), JArr(<<>>)),
                         Get(ats_data, Chars("filler_phrases"), JArr(<<>>)))
  /\ Truthy(Get(ats_data, Chars("keyword_suggestions"), None))
       => Iterable(ats_data.o[Chars("keyword_suggestions")])

DisplayOk(stage, data) ==
  CASE stage = "analysis" -> Tab1DisplayOk(data)
    [] stage = "structured" -> TRUE
    [] stage = "ats" -> Tab3DisplayOk(data)

\* the try/except around json.loads and the display code: the record the
\* stage leaves in its *_data variable, and whether the except branch ran
ParseStage(stage, raw_output) ==
  LET r == JsonLoads(raw_output) IN
  IF r.ok /\ DisplayOk(stage, r.val)
  THEN [data |-> r.val, failed |-> FALSE]
  ELSE [data |-> EmptyDict, failed |-> TRUE]

(***************************************************************************)
(* The report renderer generate_pdf_report (lines 140-210).                *)
(*                                                                         *)
(* The story is the sequence of flowables given to doc.build: a Paragraph  *)
(* is [kind, text, style], a Spacer [kind, width, height].  A step of the  *)
(* function is [ok |-> TRUE, blocks |-> flowables] or, where the Python    *)
(* raises, [ok |-> FALSE].                                                 *)
(***************************************************************************)
Paragraph(text, style) == [kind |-> "Paragraph", text |-> text, style |-> style]
Spacer(width, height) == [kind |-> "Spacer", width |-> width, height |-> height]

Blocks(bs) == [ok |-> TRUE, blocks |-> bs]
Raises == [ok |-> FALSE]

\* f"• {x}" as a Paragraph in the Normal style
BulletPara(x) == Paragraph(<<Bullet, " ">> \o PyStr(x), "Normal")

\* for x in items: story.append(Paragraph(f"• {x}", styles['Normal']))
BulletParas(items) == [i \in 1..Len(items) |-> BulletPara(items[i])]

TitleText == Chars("Resume Analysis Report")
SectionsHeading == Chars("<b>Sections Detected:</b>")
MissingHeading == Chars("<b>Missing Sections:</b>")
SentimentHeading == Chars("<b>Skills Sentiment Analysis:</b>")
SuggestionsHeading == Chars("<b>Improvement Suggestions:</b>")
AtsHeading == Chars("<b>ATS-Friendly Recommendations:</b>")
JargonHeading == Chars("<b>Jargon/Filler Phrases Detected:</b>")

\* lines 147-156
TitleBlock == Blocks(<<Paragraph(TitleText, "CustomTitle"), Spacer(1, 20)>>)

\* the text of the score line, line 160
ScoreText(score) ==
  Chars("<b>Resume Quality Score: ") \o PyStr(score) \o Chars("/100</b>")

\* ScoreBlock with analysis_data['resume_quality_score'] for the .get: a
\* KeyError where the score is missing
ScoreBlock_Subscript(analysis_data) ==
  IF ~IsDict(analysis_data) \/ Chars("resume_quality_score") \notin DOMAIN analysis_data.o
  THEN Raises
  ELSE Blocks(<<Paragraph(ScoreText(analysis_data.o[Chars("resume_quality_score")]),
                          "Heading2"), Spacer(1, 12)>>)

\* lines 158-161; .get raises AttributeError on what is not a dict
ScoreBlock(analysis_data) ==
  IF ~IsDict(analysis_data) THEN Raises
  ELSE LET score == Get(analysis_data, Chars("resume_quality_score"), JStr(Chars("N/A")))
       IN Blocks(<<Paragraph(ScoreText(score), "Heading2"), Spacer(1, 12)>>)

\* lines 163-168: the heading is appended whatever the list holds
SectionsBlock(analysis_data) ==
  IF ~IsDict(analysis_data) THEN Raises
  ELSE LET sections == Get(analysis_data, Chars("sections_detected"), JArr(<<>>)) IN
       IF ~Iterable(sections) THEN Raises
       ELSE Blocks(<<Paragraph(SectionsHeading, "Heading3")>>
                   \o BulletParas(Elements(sections)) \o <<Spacer(1, 12)>>)

\* a conditional list block: items = data.get(key, []); `if items:` heading,
\* bullets, and the Spacer when spacer is TRUE
ListBlock(data, key, heading, spacer) ==
  IF ~IsDict(data) THEN Raises
  ELSE LET items == Get(data, Chars(key), JArr(<<>>)) IN
       IF ~Truthy(items) THEN Blocks(<<>>)
       ELSE IF ~Iterable(items) THEN Raises
       ELSE Blocks(<<Paragraph(heading, "Heading3")>> \o BulletParas(Elements(items))
                   \o (IF spacer THEN <<Spacer(1, 12)>> ELSE <<>>))

\* lines 170-176
MissingBlock(analysis_data) ==
  ListBlock(analysis_data, "missing_sections", MissingHeading, TRUE)

\* lines 178-183.  Paragraph() takes a string; a truthy sentiment of another
\* type is taken to raise inside reportlab (no input of the specifications
\* below has one)
SentimentBlock(analysis_data) ==
  IF ~IsDict(analysis_data) THEN Raises
  ELSE LET sentiment == Get(analysis_data, Chars("skills_sentiment_summary"), JStr(<<>>)) IN
       IF ~Truthy(sentiment) THEN Blocks(<<>>)
       ELSE IF sentiment.t # "str" THEN Raises
       ELSE Blocks(<<Paragraph(SentimentHeading, "Heading3"),
                     Paragraph(sentiment.s, "Normal"), Spacer(1, 12)>>)

\* lines 185-191
SuggestionsBlock(analysis_data) ==
  ListBlock(analysis_data, "improvement_suggestions", SuggestionsHeading, TRUE)

\* lines 193-199
AtsBlock(ats_data) ==
  ListBlock(ats_data, "ats_recommendations", AtsHeading, TRUE)

\* JargonBlock over jargon_detected + filler_phrases, as tab 3 shows them
JargonBlock_WithFiller(ats_data) ==
  IF ~IsDict(ats_data) THEN Raises
  ELSE LET jargon == Get(ats_data, Chars("jargon_detected"), JArr(<<>>))
           filler == Get(ats_data, Chars("filler_phrases"), JArr(<<>>))
       IN IF jargon.t # "arr" \/ filler.t # "arr" THEN Raises
          ELSE IF jargon.a \o filler.a = <<>> THEN Blocks(<<>>)
          ELSE Blocks(<<Paragraph(JargonHeading, "Heading3")>>
                      \o BulletParas(jargon.a \o filler.a))

\* lines 201-206: jargon_detected alone; no Spacer follows the last block
JargonBlock(ats_data) ==
  ListBlock(ats_data, "jargon_detected", JargonHeading, FALSE)

\* the blocks in the order the function appends them; the first that raises
\* ends the function
RECURSIVE Compose(_)
Compose(steps) ==
  IF steps = <<>> THEN Blocks(<<>>)
  ELSE IF ~Head(steps).ok THEN Raises
  ELSE LET rest == Compose(Tail(steps)) IN
       IF rest.ok THEN Blocks(Head(steps).blocks \o rest.blocks) ELSE Raises

\* doc.build(story) writes the document into the buffer: a header, the
\* flowables laid out in order, a trailer
DocBuild(story) == <<"%PDF">> \o story \o <<"%%EOF">>

\* lines 208-210: the io.BytesIO after doc.build(story) and buffer.seek(0)
SeekStart(content) == [content |-> content, pos |-> 0]

\* generate_pdf_report with a Skills block read from structured_data
generate_pdf_report_WithSkills(analysis_data, structured_data, ats_data) ==
  LET story == Compose(<<TitleBlock,
                         ScoreBlock(analysis_data),
                         SectionsBlock(analysis_data),
                         MissingBlock(analysis_data),
                         SentimentBlock(analysis_data),
                         SuggestionsBlock(analysis_data),
                         AtsBlock(ats_data),
                         JargonBlock(ats_data),
                         ListBlock(structured_data, "skills", Chars("<b>Skills:</b>"), FALSE)>>)
  IN IF ~story.ok THEN Raises
     ELSE [ok |-> TRUE, story |-> story.blocks,
           buffer |-> SeekStart(DocBuild(story.blocks))]

\* [ok |-> TRUE, story, buffer] where the function returns, [ok |-> FALSE]
\* where it raises
generate_pdf_report(analysis_data, structured_data, ats_data) ==
  LET story == Compose(<<TitleBlock,
                         ScoreBlock(analysis_data),
                         SectionsBlock(analysis_data),
                         MissingBlock(analysis_data),
                         SentimentBlock(analysis_data),
                         SuggestionsBlock(analysis_data),
                         AtsBlock(ats_data),
                         JargonBlock(ats_data)>>)
  IN IF ~story.ok THEN Raises
     ELSE [ok |-> TRUE, story |-> story.blocks,
           buffer |-> SeekStart(DocBuild(story.blocks))]

(***************************************************************************)
(* The inputs: uploaded files and what the model client does.              *)
(***************************************************************************)
SeqsUpTo(S, n) == UNION {[1..k -> S] : k \in 0..n}

\* the text of a page or of a paragraph
PartTexts == {<<>>, Chars(" "), Chars("a")}
\* the bytes of a file: "a", " ", and 0xFF
FileBytes == {97, 32, 255}

PdfBodies == {[kind |-> "pdf", pages |-> p] : p \in SeqsUpTo(PartTexts, MaxParts)}
DocxBodies == {[kind |-> "docx", paragraphs |-> p] : p \in SeqsUpTo(PartTexts, MaxParts)}
ByteBodies == {[kind |-> "bytes", bytes |-> b] : b \in SeqsUpTo(FileBytes, MaxParts)}

\* the uploader takes .pdf, .docx and .txt names (line 216); the bytes of a
\* file named .pdf or .docx need not be a PDF or a DOCX
Files ==
  {[name |-> Chars("cv.pdf"), body |-> b] : b \in PdfBodies \cup ByteBodies}
  \cup {[name |-> Chars("cv.docx"), body |-> b] : b \in DocxBodies \cup ByteBodies}
  \cup {[name |-> Chars("cv.txt"), body |-> b] : b \in ByteBodies}

\* no file chosen: uploaded_file is None
NoFile == [name |-> <<>>, body |-> [kind |-> "none"]]

\* response.text of a reply: the body bare, in a ```json fence or in a ```
\* fence, and surrounded by whitespace when padded
ReplyText(o) ==
  LET inner == CASE o.form = "bare" -> o.body
                 [] o.form = "json" -> FenceJson \o <<"\n">> \o o.body \o <<"\n">> \o Fence
                 [] o.form = "plain" -> Fence \o <<"\n">> \o o.body \o <<"\n">> \o Fence
  IN IF o.padded THEN <<" ">> \o inner \o <<"\n">> ELSE inner

ModelRaises(msg) == [raises |-> TRUE, msg |-> msg]
ModelReplies(form, padded, body) ==
  [raises |-> FALSE, form |-> form, padded |-> padded, body |-> body,
   text |-> ReplyText([form |-> form, padded |-> padded, body |-> body])]

\* a reply with the fields the prompt of the stage asks for
CompliantBody(stage) ==
  CASE stage = "analysis" ->
         Chars("{\"resume_quality_score\": 42, \"missing_sections\": [\"Experience\"]}")
    [] stage = "structured" ->
         Chars("{\"summary\": \"none\", \"skills\": [\"Python\"]}")
    [] stage = "ats" ->
         Chars("{\"jargon_detected\": [\"synergy\"], \"filler_phrases\": [\"etc\"]}")

\* a reply one of whose strings holds a code fence
QuotingBody(stage) ==
  CASE stage = "analysis" ->
         Chars("{\"skills_sentiment_summary\": \"") \o FenceJson \o Chars(" ok\"}")
    [] stage = "structured" ->
         Chars("{\"summary\": \"") \o Fence \o Chars("py\"}")
    [] stage = "ats" ->
         Chars("{\"jargon_detected\": [\"") \o Fence \o Chars("\"]}")

\* a JSON reply of another shape than the prompt asks for
MisshapenBody(stage) ==
  CASE stage = "analysis" -> Chars("{\"improvement_suggestions\": 5}")
    [] stage = "structured" -> Chars("[7]")
    [] stage = "ats" -> Chars("{\"ats_recommendations\": 5}")

\* what model.generate_content may do in a stage
Outcomes(stage) ==
  { ModelRaises(Chars("quota")),
    ModelRaises(Chars("no \"key\"")),
    ModelReplies("bare", FALSE, CompliantBody(stage)),
    ModelReplies("json", TRUE, CompliantBody(stage)),
    ModelReplies("plain", FALSE, QuotingBody(stage)),
    ModelReplies("bare", FALSE, MisshapenBody(stage)),
    ModelReplies("bare", FALSE, Chars("Sorry")) }

(***************************************************************************)
(* The script as a state machine (lines 213-436).                          *)
(*                                                                         *)
(* pc is the place of the run in the script.  A Python variable holds a    *)
(* tagged value, or Unbound before its first assignment.  calls lists the  *)
(* calls made to the three analysis functions and to generate_pdf_report,  *)
(* ui what the page shows; responses keeps what the model client did in    *)
(* each stage.                                                             *)
(***************************************************************************)
VARIABLES
  analyze_button,   \* st.button was pressed
  uploaded_file,    \* st.file_uploader
  pc,
  resume_text,
  feedback_raw, structured_raw, ats_raw,
  raw_output,       \* the one scratch variable of the three tabs
  analysis_data, structured_data, ats_data,
  pdf_buffer,
  responses,
  calls,
  ui,
  stage_pc,         \* the place of each stage when the stages run in any order
  overlapped        \* a stage ran a step while another was between call and parse

vars == <<analyze_button, uploaded_file, pc, resume_text, feedback_raw,
          structured_raw, ats_raw, raw_output, analysis_data, structured_data,
          ats_data, pdf_buffer, responses, calls, ui, stage_pc, overlapped>>

Unbound == [t |-> "unbound"]
NotCalled == [called |-> FALSE]

StageFunction(stage) ==
  CASE stage = "analysis" -> "analyze_resume"
    [] stage = "structured" -> "parse_structured_resume"
    [] stage = "ats" -> "detect_jargon_and_ats_issues"

RawOf(stage) ==
  CASE stage = "analysis" -> feedback_raw
    [] stage = "structured" -> structured_raw
    [] stage = "ats" -> ats_raw

DataOf(stage) ==
  CASE stage = "analysis" -> analysis_data
    [] stage = "structured" -> structured_data
    [] stage = "ats" -> ats_data

SetRaw(stage, v) ==
  /\ feedback_raw' = IF stage = "analysis" THEN v ELSE feedback_raw
  /\ structured_raw' = IF stage = "structured" THEN v ELSE structured_raw
  /\ ats_raw' = IF stage = "ats" THEN v ELSE ats_raw

SetData(stage, v) ==
  /\ analysis_data' = IF stage = "analysis" THEN v ELSE analysis_data
  /\ structured_data' = IF stage = "structured" THEN v ELSE structured_data
  /\ ats_data' = IF stage = "ats" THEN v ELSE ats_data

\* what a tab shows after its try block (lines 273-290, 314-329, 353-380)
StageUi(stage, failed) ==
  IF failed THEN <<"warning:could not parse " \o stage, "error:details " \o stage>>
  ELSE IF stage = "structured" THEN <<"json:structured", "download:structured_resume.json">>
  ELSE <<"json:" \o stage>>

InitVars ==
  /\ resume_text = Unbound
  /\ feedback_raw = Unbound /\ structured_raw = Unbound /\ ats_raw = Unbound
  /\ raw_output = Unbound
  /\ analysis_data = Unbound /\ structured_data = Unbound /\ ats_data = Unbound
  /\ pdf_buffer = Unbound
  /\ responses = [s \in Stages |-> NotCalled]
  /\ calls = <<>>
  /\ ui = <<>>
  /\ stage_pc = [s \in Stages |-> "idle"]
  /\ overlapped = FALSE

\* a run of the script: the button pressed or not, a file chosen or not
Init ==
  /\ analyze_button \in BOOLEAN
  /\ uploaded_file \in Files \cup {NoFile}
  /\ pc = "start"
  /\ InitVars

\* line 219
Start ==
  /\ pc = "start"
  /\ IF analyze_button /\ uploaded_file # NoFile
     THEN pc' = "extract" /\ ui' = Append(ui, "info:processing")
     ELSE pc' = "sidebar" /\ ui' = ui
  /\ UNCHANGED <<analyze_button, uploaded_file, resume_text, feedback_raw,
                 structured_raw, ats_raw, raw_output, analysis_data,
                 structured_data, ats_data, pdf_buffer, responses, calls,
                 stage_pc, overlapped>>

\* lines 228-245: no try surrounds the extractor, so what it raises ends the
\* run; blank text is reported and st.stop() ends the run
Extract ==
  /\ pc = "extract"
  /\ LET r == ExtractText(uploaded_file) IN
     IF r.raised
     THEN /\ pc' = "crashed"
          /\ ui' = Append(ui, "exception:uncaught")
          /\ resume_text' = resume_text
     ELSE /\ resume_text' = JStr(r.val)
          /\ IF IsBlank(r.val)
             THEN /\ pc' = "stopped"
                  /\ ui' = Append(ui, "error:Could not extract text from resume.")
             ELSE /\ pc' = "tab1"
                  /\ ui' = ui
  /\ UNCHANGED <<analyze_button, uploaded_file, feedback_raw,
                 structured_raw, ats_raw, raw_output, analysis_data,
                 structured_data, ats_data, pdf_buffer, responses, calls,
                 stage_pc, overlapped>>

\* one tab: the call of the analysis function, the fence-stripping, the
\* parse and the display, and the except branch that binds {}
RunTab(stage, outcome, next) ==
  LET raw == CallStage(stage, outcome)
      stripped == StripFences(raw)
      parsed == ParseStage(stage, stripped)
  IN /\ responses' = [responses EXCEPT ![stage] = outcome]
     /\ calls' = Append(calls, [fn |-> StageFunction(stage), arg |-> resume_text])
     /\ SetRaw(stage, JStr(raw))
     /\ raw_output' = JStr(stripped)
     /\ SetData(stage, parsed.data)
     /\ ui' = ui \o StageUi(stage, parsed.failed)
     /\ pc' = next
     /\ UNCHANGED <<analyze_button, uploaded_file, resume_text, pdf_buffer,
                    stage_pc, overlapped>>

\* lines 250-290
Tab1 == pc = "tab1" /\ \E o \in Outcomes("analysis") : RunTab("analysis", o, "tab2")

\* Tab2 that skips its model call when tab 1 bound the empty record
Tab2_SkipAfterFailure ==
  /\ pc = "tab2"
  /\ IF analysis_data = EmptyDict
     THEN /\ structured_data' = EmptyDict
          /\ pc' = "tab3"
          /\ UNCHANGED <<analyze_button, uploaded_file, resume_text, feedback_raw,
                         structured_raw, ats_raw, raw_output, analysis_data,
                         ats_data, pdf_buffer, responses, calls, ui, stage_pc,
                         overlapped>>
     ELSE \E o \in Outcomes("structured") : RunTab("structured", o, "tab3")

\* lines 292-329
Tab2 == pc = "tab2" /\ \E o \in Outcomes("structured") : RunTab("structured", o, "tab3")

\* lines 331-380
Tab3 == pc = "tab3" /\ \E o \in Outcomes("ats") : RunTab("ats", o, "tab4")

\* Tab4 with the download button after the try block instead of inside it
Tab4_DownloadAfterTry ==
  /\ pc = "tab4"
  /\ LET r == generate_pdf_report(analysis_data, structured_data, ats_data) IN
     /\ calls' = Append(calls, [fn |-> "generate_pdf_report", arg |-> Unbound])
     /\ IF r.ok
        THEN /\ pdf_buffer' = [t |-> "BytesIO", story |-> r.story, buffer |-> r.buffer]
             /\ ui' = ui \o <<"success:report", "download:resume_analysis_report.pdf">>
        ELSE /\ pdf_buffer' = pdf_buffer
             /\ ui' = ui \o <<"error:report", "download:resume_analysis_report.pdf">>
  /\ pc' = "sidebar"
  /\ UNCHANGED <<analyze_button, uploaded_file, resume_text, feedback_raw,
                 structured_raw, ats_raw, raw_output, analysis_data,
                 structured_data, ats_data, responses, stage_pc, overlapped>>

\* lines 382-423: the download button is reached only when
\* generate_pdf_report returned
Tab4 ==
  /\ pc = "tab4"
  /\ IF analysis_data # Unbound /\ structured_data # Unbound /\ ats_data # Unbound
     THEN LET r == generate_pdf_report(analysis_data, structured_data, ats_data) IN
          /\ calls' = Append(calls, [fn |-> "generate_pdf_report", arg |-> Unbound])
          /\ IF r.ok
             THEN /\ pdf_buffer' = [t |-> "BytesIO", story |-> r.story, buffer |-> r.buffer]
                  /\ ui' = ui \o <<"success:report", "download:resume_analysis_report.pdf">>
             ELSE /\ pdf_buffer' = pdf_buffer
                  /\ ui' = Append(ui, "error:report")
     ELSE /\ calls' = calls
          /\ pdf_buffer' = pdf_buffer
          /\ ui' = Append(ui, "warning:complete the analysis first")
  /\ pc' = "sidebar"
  /\ UNCHANGED <<analyze_button, uploaded_file, resume_text, feedback_raw,
                 structured_raw, ats_raw, raw_output, analysis_data,
                 structured_data, ats_data, responses, stage_pc, overlapped>>

\* lines 425-436
Sidebar ==
  /\ pc = "sidebar"
  /\ pc' = "done"
  /\ ui' = Append(ui, "sidebar")
  /\ UNCHANGED <<analyze_button, uploaded_file, resume_text, feedback_raw,
                 structured_raw, ats_raw, raw_output, analysis_data,
                 structured_data, ats_data, pdf_buffer, responses, calls,
                 stage_pc, overlapped>>

Next == Start \/ Extract \/ Tab1 \/ Tab2 \/ Tab3 \/ Tab4 \/ Sidebar

Spec == Init /\ [][Next]_vars

(***************************************************************************)
(* The renderer alone: generate_pdf_report on records drawn from bounded   *)
(* sets, whatever the tabs would have produced.                            *)
(***************************************************************************)
Absent == [t |-> "absent"]

\* the dict with the fields of the record f that are not Absent
Dict(f) ==
  LET present == {n \in DOMAIN f : f[n] # Absent} IN
  JObj([k \in {Chars(n) : n \in present} |->
          f[CHOOSE n \in present : Chars(n) = k]])

ItemValues == {JStr(Chars("A")), JStr(Chars("B"))}
Lists == {JArr(l) : l \in SeqsUpTo(ItemValues, MaxItems)}
\* a list field: missing, a list, or null or a number where a list is expected
ListFieldValues == Lists \cup {Absent, JNull, JNum(5)}

ErrorTagged == Dict([error |-> JStr(Chars("Failed to analyze resume: quota"))])

\* score, detected sections and sentiment together: all missing; all
\* present; a zero score, null for the sections and an empty sentiment
ScalarVariants ==
  { [score |-> Absent, sections |-> Absent, sentiment |-> Absent],
    [score |-> JNum(42), sections |-> JArr(<<JStr(Chars("A")), JStr(Chars("B"))>>),
     sentiment |-> JStr(Chars("ok"))],
    [score |-> JNum(0), sections |-> JNull, sentiment |-> JStr(<<>>)] }

AnalysisInputs ==
  { Dict([resume_quality_score |-> v.score,
          sections_detected |-> v.sections,
          missing_sections |-> mi,
          skills_sentiment_summary |-> v.sentiment,
          improvement_suggestions |-> su]) :
      v \in ScalarVariants, mi \in ListFieldValues, su \in ListFieldValues }
  \cup {ErrorTagged}

AtsInputs ==
  { Dict([ats_recommendations |-> re, jargon_detected |-> ja, filler_phrases |-> fi]) :
      re \in ListFieldValues, ja \in ListFieldValues,
      fi \in {Absent, JArr(<<JStr(Chars("B"))>>)} }
  \cup {ErrorTagged}

AnalysisSamples ==
  { EmptyDict, ErrorTagged,
    Dict([resume_quality_score |-> JNum(42),
          missing_sections |-> JArr(<<JStr(Chars("A"))>>)]) }

AtsSamples ==
  { EmptyDict, ErrorTagged,
    Dict([jargon_detected |-> JArr(<<JStr(Chars("A"))>>)]),
    Dict([filler_phrases |-> JArr(<<JStr(Chars("B"))>>)]) }

\* structured_data is whatever json.loads returned in tab 2: any JSON value
StructuredInputs ==
  { EmptyDict, ErrorTagged, JStr(Chars("n/a")),
    Dict([skills |-> JArr(<<JStr(Chars("A"))>>)]) }

\* the script at tab 4 with the three records bound
InitReport ==
  /\ analyze_button = TRUE
  /\ uploaded_file = [name |-> Chars("cv.txt"), body |-> [kind |-> "bytes", bytes |-> <<97>>]]
  /\ pc = "tab4"
  /\ resume_text = JStr(Chars("a"))
  /\ feedback_raw = Unbound /\ structured_raw = Unbound /\ ats_raw = Unbound
  /\ raw_output = Unbound
  /\ \/ analysis_data \in AnalysisInputs /\ ats_data \in AtsSamples
     \/ analysis_data \in AnalysisSamples /\ ats_data \in AtsInputs
  /\ structured_data \in StructuredInputs
  /\ pdf_buffer = Unbound
  /\ responses = [s \in Stages |-> NotCalled]
  /\ calls = <<>>
  /\ ui = <<>>
  /\ stage_pc = [s \in Stages |-> "idle"]
  /\ overlapped = FALSE

NextReport == Tab4 \/ Sidebar

SpecReport == InitReport /\ [][NextReport]_vars

(***************************************************************************)
(* The three stages in any order.  The script runs tab 1, tab 2, tab 3;    *)
(* here the statements of each tab keep their order and the tabs are       *)
(* interleaved freely: the call (lines 257, 299, 338), the fence-stripping *)
(* into raw_output (265-269, 306-310, 345-349), and json.loads(raw_output) *)
(* with the display and the except branch (271-290, 312-329, 351-380).     *)
(* raw_output is one variable of the script, written by all three tabs.    *)
(***************************************************************************)
\* what the model client may do when the stages are reordered
OrderOutcomes(stage) ==
  { ModelRaises(Chars("quota")),
    ModelReplies("bare", FALSE, CompliantBody(stage)),
    ModelReplies("json", TRUE, CompliantBody(stage)),
    ModelReplies("bare", FALSE, Chars("Sorry")) }

InFlight(stage) == stage_pc[stage] \in {"called", "stripped"}
OthersInFlight(stage) == \E other \in Stages \ {stage} : InFlight(other)

\* the script after a successful extraction, before the first tab
InitOrder ==
  /\ analyze_button = TRUE
  /\ uploaded_file = [name |-> Chars("cv.txt"), body |-> [kind |-> "bytes", bytes |-> <<97>>]]
  /\ pc = "stages"
  /\ resume_text = JStr(Chars("a"))
  /\ feedback_raw = Unbound /\ structured_raw = Unbound /\ ats_raw = Unbound
  /\ raw_output = Unbound
  /\ analysis_data = Unbound /\ structured_data = Unbound /\ ats_data = Unbound
  /\ pdf_buffer = Unbound
  /\ responses = [s \in Stages |-> NotCalled]
  /\ calls = <<>>
  /\ ui = <<"info:processing">>
  /\ stage_pc = [s \in Stages |-> "idle"]
  /\ overlapped = FALSE

\* lines 257, 299, 338: feedback_raw = analyze_resume(resume_text), ...
StageCall(stage) ==
  /\ pc = "stages"
  /\ stage_pc[stage] = "idle"
  /\ \E o \in OrderOutcomes(stage) :
       /\ responses' = [responses EXCEPT ![stage] = o]
       /\ SetRaw(stage, JStr(CallStage(stage, o)))
  /\ calls' = Append(calls, [fn |-> StageFunction(stage), arg |-> resume_text])
  /\ stage_pc' = [stage_pc EXCEPT ![stage] = "called"]
  /\ overlapped' = (overlapped \/ OthersInFlight(stage))
  /\ UNCHANGED <<analyze_button, uploaded_file, pc, resume_text, raw_output,
                 analysis_data, structured_data, ats_data, pdf_buffer, ui>>

\* StageStrip where every tab strips feedback_raw, the variable of tab 1
StageStrip_FeedbackRaw(stage) ==
  /\ pc = "stages"
  /\ stage_pc[stage] = "called"
  /\ raw_output' = JStr(StripFences(IF feedback_raw = Unbound THEN RawOf(stage).s
                                    ELSE feedback_raw.s))
  /\ stage_pc' = [stage_pc EXCEPT ![stage] = "stripped"]
  /\ overlapped' = (overlapped \/ OthersInFlight(stage))
  /\ UNCHANGED <<analyze_button, uploaded_file, pc, resume_text, feedback_raw,
                 structured_raw, ats_raw, analysis_data, structured_data,
                 ats_data, pdf_buffer, responses, calls, ui>>

\* lines 265-269, 306-310, 345-349: raw_output = <the raw text of the tab>,
\* stripped
StageStrip(stage) ==
  /\ pc = "stages"
  /\ stage_pc[stage] = "called"
  /\ raw_output' = JStr(StripFences(RawOf(stage).s))
  /\ stage_pc' = [stage_pc EXCEPT ![stage] = "stripped"]
  /\ overlapped' = (overlapped \/ OthersInFlight(stage))
  /\ UNCHANGED <<analyze_button, uploaded_file, pc, resume_text, feedback_raw,
                 structured_raw, ats_raw, analysis_data, structured_data,
                 ats_data, pdf_buffer, responses, calls, ui>>

\* lines 271-290, 312-329, 351-380: json.loads(raw_output), the display, the
\* except branch; the report tab follows the last stage
StageParse(stage) ==
  /\ pc = "stages"
  /\ stage_pc[stage] = "stripped"
  /\ LET parsed == ParseStage(stage, raw_output.s) IN
     /\ SetData(stage, parsed.data)
     /\ ui' = ui \o StageUi(stage, parsed.failed)
  /\ stage_pc' = [stage_pc EXCEPT ![stage] = "done"]
  /\ pc' = IF \A other \in Stages \ {stage} : stage_pc[other] = "done"
           THEN "tab4" ELSE pc
  /\ overlapped' = (overlapped \/ OthersInFlight(stage))
  /\ UNCHANGED <<analyze_button, uploaded_file, resume_text, feedback_raw,
                 structured_raw, ats_raw, raw_output, pdf_buffer, responses,
                 calls>>

NextOrder ==
  \/ \E st \in Stages : StageCall(st)
  \/ \E st \in Stages : StageStrip(st)
  \/ \E st \in Stages : StageParse(st)
  \/ Tab4
  \/ Sidebar

SpecOrder == InitOrder /\ [][NextOrder]_vars

(***************************************************************************)
(* Properties.                                                             *)
(***************************************************************************)
Shown(event) == \E i \in 1..Len(ui) : ui[i] = event
CallCount(fn) == Cardinality({i \in 1..Len(calls) : calls[i].fn = fn})
AllWhitespace(text) == \A i \in 1..Len(text) : text[i] \in PyWhitespace
AfterReport == pc \in {"sidebar", "done"} /\ CallCount("generate_pdf_report") > 0
ExtractionError == "error:Could not extract text from resume."
ReportDownload == "download:resume_analysis_report.pdf"

\* C1: a request whose extracted text is empty or all whitespace ends stopped
\* with the extraction error shown, and no analysis function and no report
\* rendering is called in it.
BlankTextHaltsBeforeAnyCall ==
  (resume_text # Unbound /\ AllWhitespace(resume_text.s))
    => /\ pc = "stopped"
       /\ Shown(ExtractionError)
       /\ calls = <<>>
       /\ pdf_buffer = Unbound

BlankTextHalted ==
  /\ pc = "stopped"
  /\ resume_text # Unbound
  /\ resume_text.s # <<>>
  /\ AllWhitespace(resume_text.s)

\* C2: when the extractor raises, the request reports an extraction failure
\* and halts without a model call; the exception does not end the run
\* uncaught.
ExtractorFailureIsCaught ==
  (pc \notin {"start", "extract"} /\ analyze_button /\ uploaded_file # NoFile
     /\ ExtractText(uploaded_file).raised)
    => /\ pc = "stopped"
       /\ Shown(ExtractionError)
       /\ ~Shown("exception:uncaught")
       /\ calls = <<>>

\* C3: whatever the message of the exception the model client raises, the
\* text the analysis function returns parses as JSON into an object whose
\* only field is a string `error`.
FailedCallIsErrorJson ==
  \A st \in Stages :
    (responses[st] # NotCalled /\ responses[st].raises)
      => /\ RawOf(st) # Unbound
         /\ LET r == JsonLoads(RawOf(st).s) IN
            /\ r.ok
            /\ r.val.t = "obj"
            /\ DOMAIN r.val.o = {Chars("error")}
            /\ r.val.o[Chars("error")].t = "str"

AfterStage(st) ==
  CASE st = "analysis" -> "tab2"
    [] st = "structured" -> "tab3"
    [] st = "ats" -> "tab4"

\* C4: a reply that is a JSON object text J, bare or inside a ```json or ```
\* fence, is stripped to a text that parses to the object J denotes, and
\* stripping the stripped text again changes nothing.
FencedReplyParsesAsItsBody ==
  \A st \in Stages :
    (pc = AfterStage(st) /\ ~responses[st].raises
       /\ JsonLoads(responses[st].body).ok
       /\ JsonLoads(responses[st].body).val.t = "obj")
      => /\ JsonLoads(raw_output.s) = JsonLoads(responses[st].body)
         /\ StripFences(raw_output.s) = raw_output.s

StageFailed(st) ==
  \/ responses[st].raises
  \/ ~JsonLoads(StripFences(Strip(responses[st].text))).ok

EmptyOrErrorRecord(v) == IsDict(v) /\ DOMAIN v.o \subseteq {Chars("error")}

ExtractionSucceeded == resume_text # Unbound /\ ~AllWhitespace(resume_text.s)

\* C5: after a successful extraction no analysis function is called twice,
\* and when the run reaches the sidebar each of the three has been called
\* once and generate_pdf_report once, whatever failed; the record of a stage
\* whose call or parse failed is the empty or the error-tagged record.
EachStageCalledOnce ==
  /\ \A st \in Stages : CallCount(StageFunction(st)) <= 1
  /\ (ExtractionSucceeded /\ pc \in {"sidebar", "done"})
       => /\ \A st \in Stages : CallCount(StageFunction(st)) = 1
          /\ CallCount("generate_pdf_report") = 1
          /\ \A st \in Stages : StageFailed(st) => EmptyOrErrorRecord(DataOf(st))

StagesRanAfterAFailure ==
  /\ pc = "done"
  /\ ExtractionSucceeded
  /\ responses["analysis"].raises
  /\ ~JsonLoads(feedback_raw.s).ok
  /\ ~StageFailed("structured")
  /\ CallCount("generate_pdf_report") = 1

\* C8: the report download is shown only when generate_pdf_report returned
\* in this run; when it raised, an error is shown, no download is offered,
\* and the run goes on to the sidebar.
DownloadOnlyAfterRender ==
  /\ Shown(ReportDownload)
       => /\ pdf_buffer # Unbound
          /\ generate_pdf_report(analysis_data, structured_data, ats_data).ok
  /\ (CallCount("generate_pdf_report") > 0
        /\ ~generate_pdf_report(analysis_data, structured_data, ats_data).ok)
       => /\ Shown("error:report")
          /\ ~Shown(ReportDownload)
          /\ pdf_buffer = Unbound
          /\ pc \in {"sidebar", "done"}

RenderRaisedAndRunWentOn ==
  /\ pc = "done"
  /\ Shown("error:report")
  /\ Shown("sidebar")

HeadingParagraph(heading) == [kind |-> "Paragraph", text |-> heading, style |-> "Heading3"]
IsBulletParagraph(b) ==
  b.kind = "Paragraph" /\ b.style = "Normal" /\ StartsWith(b.text, <<Bullet, " ">>)

\* the heading is in the story exactly when the list is non-empty, and is
\* then followed by one bullet per element, in order, and by no other bullet
ListBlockMatches(story, heading, items) ==
  LET at == {i \in 1..Len(story) : story[i] = HeadingParagraph(heading)} IN
  IF items = <<>> THEN at = {}
  ELSE /\ Cardinality(at) = 1
       /\ LET h == CHOOSE i \in at : TRUE IN
          /\ h + Len(items) <= Len(story)
          /\ \A k \in 1..Len(items) :
               story[h + k] = [kind |-> "Paragraph",
                               text |-> <<Bullet, " ">> \o items[k].s,
                               style |-> "Normal"]
          /\ h + Len(items) + 1 <= Len(story)
               => ~IsBulletParagraph(story[h + Len(items) + 1])

\* the source of a block: data.get(key, [])
Source(data, key) == Get(data, Chars(key), JArr(<<>>))

\* the block of a source that is a sequence matches it
ListBlockFollows(story, heading, data, key) ==
  Source(data, key).t = "arr" => ListBlockMatches(story, heading, Source(data, key).a)

\* C6: in every report generate_pdf_report returns, each of the four
\* conditional list blocks has its heading exactly when its own source list
\* is non-empty, followed by one bullet per element in source order; the
\* jargon block follows jargon_detected, not filler_phrases.
ListBlocksFollowSources ==
  pdf_buffer # Unbound
    => /\ ListBlockFollows(pdf_buffer.story, MissingHeading,
                           analysis_data, "missing_sections")
       /\ ListBlockFollows(pdf_buffer.story, SuggestionsHeading,
                           analysis_data, "improvement_suggestions")
       /\ ListBlockFollows(pdf_buffer.story, AtsHeading,
                           ats_data, "ats_recommendations")
       /\ ListBlockFollows(pdf_buffer.story, JargonHeading,
                           ats_data, "jargon_detected")

ReportWithOrderedBullets ==
  /\ pdf_buffer # Unbound
  /\ Source(analysis_data, "missing_sections") = JArr(<<JStr(Chars("B")), JStr(Chars("A"))>>)
  /\ Source(analysis_data, "improvement_suggestions") = JArr(<<>>)
  /\ Source(ats_data, "jargon_detected") = JArr(<<>>)
  /\ Chars("filler_phrases") \in DOMAIN ats_data.o

ParagraphsOf(story) == SelectSeq(story, LAMBDA b : b.kind = "Paragraph")

\* C7: with every record empty or error-tagged, generate_pdf_report returns
\* a non-empty buffer at offset 0 whose paragraphs begin with the title, the
\* score line with N/A for the score, and the Sections Detected heading with
\* no bullet under it.
EmptyRecordsStillRender ==
  (AfterReport /\ EmptyOrErrorRecord(analysis_data)
     /\ EmptyOrErrorRecord(structured_data) /\ EmptyOrErrorRecord(ats_data))
    => /\ pdf_buffer # Unbound
       /\ pdf_buffer.buffer.pos = 0
       /\ pdf_buffer.buffer.content # <<>>
       /\ LET ps == ParagraphsOf(pdf_buffer.story) IN
          /\ Len(ps) = 3
          /\ ps[1].text = Chars("Resume Analysis Report")
          /\ ps[2].text = Chars("<b>Resume Quality Score: N/A/100</b>")
          /\ ps[3] = HeadingParagraph(Chars("<b>Sections Detected:</b>"))

ErrorRecordsRendered ==
  /\ AfterReport
  /\ analysis_data = ErrorTagged
  /\ structured_data = ErrorTagged
  /\ ats_data = EmptyDict
  /\ pdf_buffer # Unbound

\* C10: the report does not depend on structured_data: with any other
\* structured_data, an object or not, generate_pdf_report raises exactly when
\* the call of this run raised and returns the same story when it returned.
ReportIgnoresStructuredData ==
  AfterReport
    => \A other \in StructuredInputs :
         LET r == generate_pdf_report(analysis_data, other, ats_data) IN
         IF pdf_buffer = Unbound THEN ~r.ok
         ELSE r.ok /\ r.story = pdf_buffer.story

ReportWithNonObjectStructuredData ==
  /\ AfterReport
  /\ structured_data.t = "str"
  /\ pdf_buffer # Unbound
  /\ Len(ParagraphsOf(pdf_buffer.story)) > 3

\* the record a stage binds in the order of the script, tab 1, tab 2,
\* tab 3, given what the model client did in that stage
ReferenceData(st) ==
  ParseStage(st, StripFences(CallStage(st, responses[st]))).data

ReferenceReport ==
  generate_pdf_report(ReferenceData("analysis"), ReferenceData("structured"),
                      ReferenceData("ats"))

SameAsReferenceOrder ==
  /\ \A st \in Stages : DataOf(st) = ReferenceData(st)
  /\ AfterReport =>
       IF pdf_buffer = Unbound THEN ~ReferenceReport.ok
       ELSE ReferenceReport.ok /\ pdf_buffer.story = ReferenceReport.story

StagesDone == pc \in {"tab4", "sidebar", "done"}

=============================================================================
